---- MODULE Spec2Model ----
(***************************************************************************)
(* Model of the changelog checks of noxfile.py: the filename validator     *)
(* is_changelog_filename_valid, the content validator                      *)
(* is_changelog_entry_valid and the directory scan towncrier_check.        *)
(*                                                                         *)
(* A Python str is a sequence of one-character strings.  A Python call     *)
(* either returns a (valid, reason) pair or raises; both outcomes are one  *)
(* record [exc, valid, reason], exc = "None" meaning a normal return.      *)
(***************************************************************************)
EXTENDS Integers, Sequences, FiniteSets

VARIABLES
    filename,              \* argument of is_changelog_filename_valid
    allowed_change_types,  \* the allow-list (set of str)
    name_result,           \* outcome of is_changelog_filename_valid
    file_content,          \* argument of is_changelog_entry_valid
    entry_result,          \* outcome of is_changelog_entry_valid
    dir,                   \* entries of ./changelog.d/ in glob order
    idx,                   \* position of the for loop of towncrier_check
    is_error,              \* the failure flag of towncrier_check
    log,                   \* session.log lines, in order
    was_read,              \* positions whose bytes read_text has read
    outcome                \* "idle", "running", "ok", "error" or "raised"

vars == <<filename, allowed_change_types, name_result, file_content,
          entry_result, dir, idx, is_error, log, was_read, outcome>>

-----------------------------------------------------------------------------
(* Bounds of the model. *)

\* longest filename drawn for is_changelog_filename_valid
MaxLen == 6
\* longest content drawn for is_changelog_entry_valid
MaxContent == 4
\* most entries in changelog.d
MaxFiles == 2

-----------------------------------------------------------------------------
(* Python str primitives. *)

Digits == {"0", "1", "2", "3", "4", "5", "6", "7", "8", "9"}

Whitespace == {" ", "\t", "\n", "\r"}

UpperLetters == {"A", "B", "C", "D", "E", "F", "G", "H", "I", "J", "K", "L", "M",
                 "N", "O", "P", "Q", "R", "S", "T", "U", "V", "W", "X", "Y", "Z"}

LowerLetters == {"a", "b", "c", "d", "e", "f", "g", "h", "i", "j", "k", "l", "m",
                 "n", "o", "p", "q", "r", "s", "t", "u", "v", "w", "x", "y", "z"}

\* U+2167 ROMAN NUMERAL EIGHT: category Nl, Other_Uppercase, so
\* str.isupper() is True and str.isalpha() is False.
RomanEight == "U+2167"

\* str.isalpha() of one character
isalpha(c) == c \in UpperLetters \cup LowerLetters

\* str.isupper() of one character
isupper(c) == c \in UpperLetters \cup {RomanEight}

\* str.strip(): the string without its leading and trailing whitespace
strip(s) ==
    IF \A i \in 1..Len(s) : s[i] \in Whitespace
    THEN <<>>
    ELSE LET lo == CHOOSE i \in 1..Len(s) :
                       /\ s[i] \notin Whitespace
                       /\ \A j \in 1..(i - 1) : s[j] \in Whitespace
             cut == CHOOSE k \in 0..(Len(s) - 1) :
                        /\ s[Len(s) - k] \notin Whitespace
                        /\ \A j \in (Len(s) - k + 1)..Len(s) : s[j] \in Whitespace
         IN SubSeq(s, lo, Len(s) - cut)

\* position of the last '.' of s, 0 when there is none
LastDot(s) ==
    IF \E i \in 1..Len(s) : s[i] = "."
    THEN CHOOSE i \in 1..Len(s) :
             /\ s[i] = "."
             /\ \A j \in (i + 1)..Len(s) : s[j] # "."
    ELSE 0

\* str.rsplit('.', maxsplit): split at the last maxsplit '.' characters
RECURSIVE rsplit(_, _)
rsplit(s, maxsplit) ==
    IF maxsplit = 0 \/ LastDot(s) = 0
    THEN <<s>>
    ELSE rsplit(SubSeq(s, 1, LastDot(s) - 1), maxsplit - 1)
             \o <<SubSeq(s, LastDot(s) + 1, Len(s))>>

\* digits, possibly grouped by single underscores
IsDigitGroups(s) ==
    /\ Len(s) > 0
    /\ s[1] \in Digits
    /\ s[Len(s)] \in Digits
    /\ \A i \in 1..Len(s) : s[i] \in Digits \cup {"_"}
    /\ \A i \in 1..(Len(s) - 1) : ~(s[i] = "_" /\ s[i + 1] = "_")

\* int(s) returns (TRUE) or raises ValueError (FALSE): surrounding
\* whitespace, then an optional sign, then digits with single underscores
int_parses(s) ==
    LET body == strip(s)
    IN /\ Len(body) > 0
       /\ IF body[1] \in {"+", "-"}
          THEN IsDigitGroups(SubSeq(body, 2, Len(body)))
          ELSE IsDigitGroups(body)

-----------------------------------------------------------------------------
(* Outcomes of a call and reason texts. *)

Returned(valid, reason) == [exc |-> "None", valid |-> valid, reason |-> reason]

Raised(exc) == [exc |-> exc, valid |-> FALSE, reason |-> <<>>]

NotCalled == [exc |-> "NotCalled", valid |-> FALSE, reason |-> <<>>]

\* One piece of a reason text: a fixed message, or the change-type message
\* with the two values it interpolates.
Reason(msg) == [msg |-> msg, change_type |-> <<>>, allowed |-> {}]

Separator == Reason(" / ")

\* ' / '.join(error_reasons) if error_reasons else ''
Join(error_reasons) ==
    [i \in 1..(IF Len(error_reasons) = 0 THEN 0 ELSE 2 * Len(error_reasons) - 1) |->
        IF i % 2 = 1 THEN error_reasons[(i + 1) \div 2] ELSE Separator]

PatternReason == Reason("Doesn't follow the \"<description>.<change_type>.md\" pattern.")

ExtensionReason == Reason("Doesn't end with md extension.")

ChangeTypeReason(change_type, allowed) ==
    [msg |-> "Change type doesn't match allowed types", change_type |-> change_type,
     allowed |-> allowed]

DescriptionReason == Reason("Doesn't start with a number nor a plus sign.")

CapitalReason == Reason("The first character is not a capital letter.")

FullStopReason == Reason("The last character is not a full-stop character.")

-----------------------------------------------------------------------------
(* is_changelog_filename_valid *)

wanted_extension == <<"m", "d">>

\* the extension check: the reasons it appends
check_extension(extension) ==
    IF extension # wanted_extension THEN <<ExtensionReason>> ELSE <<>>

\* the change-type check: the reasons it appends
check_change_type(change_type, allowed) ==
    IF change_type \notin allowed
    THEN <<ChangeTypeReason(change_type, allowed)>>
    ELSE <<>>

\* mutant: the '+' alternative of the description check is lost
check_description_no_plus(description) ==
    IF int_parses(description)
    THEN Returned(TRUE, <<>>)
    ELSE IF description = <<>>
         THEN Raised("IndexError")
         ELSE Returned(FALSE, <<DescriptionReason>>)

\* the description check: the reasons it appends, or the IndexError of
\* description[0] on an empty description
check_description(description) ==
    IF int_parses(description)
    THEN Returned(TRUE, <<>>)
    ELSE IF description = <<>>
         THEN Raised("IndexError")
         ELSE IF description[1] # "+"
              THEN Returned(FALSE, <<DescriptionReason>>)
              ELSE Returned(TRUE, <<>>)

\* mutant: no early return on too few segments; the missing segments are
\* taken as empty and the other checks run
is_changelog_filename_valid_no_early_return(name, allowed) ==
    LET segs == rsplit(name, 2)
        padded == segs \o [i \in 1..(3 - Len(segs)) |-> <<>>]
        descr == check_description(padded[1])
        reasons == (IF Len(segs) < 3 THEN <<PatternReason>> ELSE <<>>)
                       \o check_extension(padded[3])
                       \o check_change_type(padded[2], allowed)
                       \o descr.reason
    IN IF descr.exc # "None"
       THEN Raised(descr.exc)
       ELSE Returned(Len(reasons) = 0, Join(reasons))

is_changelog_filename_valid(name, allowed) ==
    LET parts == rsplit(name, 2)
    IN IF Len(parts) # 3
       THEN Returned(FALSE, <<PatternReason>>)
       ELSE LET description == parts[1]
                change_type == parts[2]
                extension == parts[3]
                described == check_description(description)
                error_reasons == check_extension(extension)
                                     \o check_change_type(change_type, allowed)
                                     \o described.reason
            IN IF described.exc # "None"
               THEN Raised(described.exc)
               ELSE Returned(Len(error_reasons) = 0, Join(error_reasons))

-----------------------------------------------------------------------------
(* is_changelog_entry_valid *)

is_changelog_entry_valid(content) ==
    IF content = <<>>
    THEN Raised("IndexError")
    ELSE LET capital == IF ~isalpha(content[1]) \/ ~isupper(content[1])
                        THEN <<CapitalReason>>
                        ELSE <<>>
         IN IF strip(content) = <<>>
            THEN Raised("IndexError")
            ELSE LET full_stop == IF strip(content)[Len(strip(content))] # "."
                                  THEN <<FullStopReason>>
                                  ELSE <<>>
                     entry_reasons == capital \o full_stop
                 IN Returned(Len(entry_reasons) = 0, Join(entry_reasons))

-----------------------------------------------------------------------------
(* Inputs. *)

Strings(alphabet, n) == UNION {[1..k -> alphabet] : k \in 0..n}

FilenameChars == {"1", "+", "-", ".", "m", "d"}

Filenames == Strings(FilenameChars, MaxLen)

\* results of load_allowed_change_types: any set of str
AllowLists == {{}, {<<"d">>}, {<<>>, <<"d">>}, {<<".">>}}

ContentChars == {"A", "a", "1", ".", " ", RomanEight}

Contents == Strings(ContentChars, MaxContent)

-----------------------------------------------------------------------------
(* A directory entry: its name and its bytes, run-length encoded as a      *)
(* sequence of [ch, n] (n copies of the one-byte character ch).            *)

\* a byte that is no valid UTF-8
BadByte == "0xFF"

\* the size ceiling of towncrier_check
SizeLimit == 16 * 1024

Run(ch, n) == [ch |-> ch, n |-> n]

RECURSIVE SumRuns(_)
SumRuns(runs) == IF runs = <<>> THEN 0 ELSE Head(runs).n + SumRuns(Tail(runs))

\* filename.lstat().st_size
st_size(f) == SumRuns(f.bytes)

RECURSIVE Expand(_)
Expand(runs) ==
    IF runs = <<>>
    THEN <<>>
    ELSE [i \in 1..Head(runs).n |-> Head(runs).ch] \o Expand(Tail(runs))

\* whether filename.read_text(encoding='utf-8') returns; it raises
\* UnicodeDecodeError otherwise
decodes(f) == \A i \in 1..Len(f.bytes) : f.bytes[i].ch # BadByte

\* the str filename.read_text(encoding='utf-8') returns
read_text(f) == Expand(f.bytes)

expected_non_md_files == {<<".", "g", "i", "t", "k", "e", "e", "p">>}

EntryNames ==
    expected_non_md_files \cup
    { <<"1", ".", "d", ".", "m", "d">>,
      <<"-", "1", ".", "d", ".", "m", "d">>,
      <<"m", ".", "d", ".", "m", "d">>,
      <<".", "d", ".", "m", "d">> }

EntryBytes ==
    { <<Run("A", 1), Run(".", 1)>>,
      <<Run("a", 1), Run(".", 1)>>,
      <<>>,
      <<Run(" ", 1)>>,
      <<Run(BadByte, 1)>>,
      <<Run("A", 1), Run("a", SizeLimit - 2), Run(".", 1)>>,
      <<Run("A", 1), Run("a", SizeLimit - 1), Run(".", 1)>>,
      <<Run(BadByte, SizeLimit + 1)>> }

EntryPool == [name : EntryNames, bytes : EntryBytes]

\* the entries of a directory have distinct names; glob yields them in
\* any order
Directories ==
    UNION { { d \in [1..k -> EntryPool] :
                  \A i, j \in 1..k : i # j => d[i].name # d[j].name } : k \in 0..MaxFiles }

\* allow-lists the scan is run with
ScanAllowLists == {{<<"d">>}, {}}

-----------------------------------------------------------------------------
(* towncrier_check *)

\* mutant: the size gate rejects a file of exactly the ceiling
is_too_big_inclusive(size) == size >= 16 * 1024

\* the size gate
is_too_big(size) == size > 16 * 1024

LogLine(f, gate, message) == [file |-> f.name, gate |-> gate, message |-> message]

\* One iteration of the for loop on entry f: the gate that ends it
\* ("expected", "pattern", "size", "utf8", "entry", "pass" or "raised")
\* and the message of its log line.
examine(f, allowed) ==
    IF f.name \in expected_non_md_files
    THEN [gate |-> "expected", message |-> <<>>]
    ELSE LET named == is_changelog_filename_valid(f.name, allowed)
         IN IF named.exc # "None"
            THEN [gate |-> "raised", message |-> <<>>]
            ELSE IF ~named.valid
            THEN [gate |-> "pattern", message |-> named.reason]
            ELSE IF is_too_big(st_size(f))
            THEN [gate |-> "size", message |-> <<>>]
            ELSE IF ~decodes(f)
            THEN [gate |-> "utf8", message |-> <<>>]
            ELSE LET checked == is_changelog_entry_valid(read_text(f))
                 IN IF checked.exc # "None"
                    THEN [gate |-> "raised", message |-> <<>>]
                    ELSE IF ~checked.valid
                    THEN [gate |-> "entry", message |-> checked.reason]
                    ELSE [gate |-> "pass", message |-> <<>>]

\* whether the iteration on f reaches read_text
reads_content(f, allowed) ==
    /\ f.name \notin expected_non_md_files
    /\ is_changelog_filename_valid(f.name, allowed) = Returned(TRUE, <<>>)
    /\ ~is_too_big(st_size(f))

InLoop == outcome = "running" /\ idx <= Len(dir)

Untouched == UNCHANGED <<filename, allowed_change_types, name_result,
                         file_content, entry_result, dir>>

\* `continue` on an expected file
SkipExpected ==
    /\ InLoop
    /\ examine(dir[idx], allowed_change_types).gate = "expected"
    /\ idx' = idx + 1
    /\ UNCHANGED <<is_error, log, was_read, outcome>>
    /\ Untouched

\* the part of an iteration that logs, sets is_error and continues
LogAndContinue(gate) ==
    /\ log' = Append(log, LogLine(dir[idx], gate,
                                  examine(dir[idx], allowed_change_types).message))
    /\ is_error' = TRUE
    /\ was_read' = IF reads_content(dir[idx], allowed_change_types)
                   THEN was_read \cup {idx}
                   ELSE was_read
    /\ idx' = idx + 1
    /\ UNCHANGED outcome
    /\ Untouched

\* the name does not match the expected pattern
RejectName ==
    /\ InLoop
    /\ examine(dir[idx], allowed_change_types).gate = "pattern"
    /\ LogAndContinue("pattern")

\* the file is too big
RejectSize ==
    /\ InLoop
    /\ examine(dir[idx], allowed_change_types).gate = "size"
    /\ LogAndContinue("size")

\* the file is not a valid UTF-8 file
RejectEncoding ==
    /\ InLoop
    /\ examine(dir[idx], allowed_change_types).gate = "utf8"
    /\ LogAndContinue("utf8")

\* the file is not a valid changelog entry
RejectEntry ==
    /\ InLoop
    /\ examine(dir[idx], allowed_change_types).gate = "entry"
    /\ LogAndContinue("entry")

\* an iteration whose entry passes every gate
Accept ==
    /\ InLoop
    /\ examine(dir[idx], allowed_change_types).gate = "pass"
    /\ was_read' = was_read \cup {idx}
    /\ idx' = idx + 1
    /\ UNCHANGED <<is_error, log, outcome>>
    /\ Untouched

\* an iteration in which a validator raises IndexError: nothing catches
\* it, the loop and the session end there
Raise ==
    /\ InLoop
    /\ examine(dir[idx], allowed_change_types).gate = "raised"
    /\ was_read' = IF reads_content(dir[idx], allowed_change_types)
                   THEN was_read \cup {idx}
                   ELSE was_read
    /\ outcome' = "raised"
    /\ UNCHANGED <<idx, is_error, log>>
    /\ Untouched

\* after the loop: session.error when is_error
Finish ==
    /\ outcome = "running"
    /\ idx = Len(dir) + 1
    /\ outcome' = IF is_error THEN "error" ELSE "ok"
    /\ UNCHANGED <<idx, is_error, log, was_read>>
    /\ Untouched

Init ==
    /\ dir \in Directories
    /\ allowed_change_types \in ScanAllowLists
    /\ idx = 1
    /\ is_error = FALSE
    /\ log = <<>>
    /\ was_read = {}
    /\ outcome = "running"
    /\ filename = <<>>
    /\ name_result = NotCalled
    /\ file_content = <<>>
    /\ entry_result = NotCalled

Next ==
    \/ SkipExpected
    \/ RejectName
    \/ RejectSize
    \/ RejectEncoding
    \/ RejectEntry
    \/ Accept
    \/ Raise
    \/ Finish

Spec == Init /\ [][Next]_vars

-----------------------------------------------------------------------------
(* The validators alone, on every input of the bounded sets. *)

NoScan ==
    /\ dir = <<>>
    /\ idx = 1
    /\ is_error = FALSE
    /\ log = <<>>
    /\ was_read = {}
    /\ outcome = "idle"

InitFilename ==
    /\ filename \in Filenames
    /\ allowed_change_types \in AllowLists
    /\ name_result = NotCalled
    /\ file_content = <<>>
    /\ entry_result = NotCalled
    /\ NoScan

CallFilenameValid ==
    /\ name_result = NotCalled
    /\ name_result' = is_changelog_filename_valid(filename, allowed_change_types)
    /\ UNCHANGED <<filename, allowed_change_types, file_content, entry_result,
                   dir, idx, is_error, log, was_read, outcome>>

NextFilename == CallFilenameValid

SpecFilename == InitFilename /\ [][NextFilename]_vars

InitEntry ==
    /\ file_content \in Contents
    /\ entry_result = NotCalled
    /\ filename = <<>>
    /\ allowed_change_types = {}
    /\ name_result = NotCalled
    /\ NoScan

CallEntryValid ==
    /\ entry_result = NotCalled
    /\ entry_result' = is_changelog_entry_valid(file_content)
    /\ UNCHANGED <<filename, allowed_change_types, name_result, file_content,
                   dir, idx, is_error, log, was_read, outcome>>

NextEntry == CallEntryValid

SpecEntry == InitEntry /\ [][NextEntry]_vars

-----------------------------------------------------------------------------
(* Properties of is_changelog_filename_valid, under SpecFilename. *)

FilenameCalled == name_result # NotCalled

CountDots(s) == Cardinality({i \in 1..Len(s) : s[i] = "."})

\* a non-empty string of decimal digits
IsNumeric(d) == Len(d) > 0 /\ \A i \in 1..Len(d) : d[i] \in Digits

StartsWithPlus(d) == Len(d) > 0 /\ d[1] = "+"

\* name is d + '.' + t + '.md' for a description d that is numeric or
\* starts with '+'
HasExpectedForm(name, t) ==
    \E k \in 0..Len(name) :
        /\ name = SubSeq(name, 1, k) \o <<".">> \o t \o <<".", "m", "d">>
        /\ IsNumeric(SubSeq(name, 1, k)) \/ StartsWithPlus(SubSeq(name, 1, k))

\* C1 as stated: for every allow-list T, a filename d + '.' + t + '.md'
\* with t in T and d numeric or starting with '+' is returned valid with
\* an empty reason.
C1_EveryAllowList ==
    FilenameCalled =>
        \A t \in allowed_change_types :
            HasExpectedForm(filename, t) => name_result = Returned(TRUE, <<>>)

\* C1 amended: the same for the members t of T that contain no '.'.
C1_DotFreeChangeType ==
    FilenameCalled =>
        \A t \in allowed_change_types :
            (CountDots(t) = 0 /\ HasExpectedForm(filename, t))
                => name_result = Returned(TRUE, <<>>)

C1_Witness ==
    /\ FilenameCalled
    /\ \E t \in allowed_change_types :
           /\ CountDots(t) = 0
           /\ HasExpectedForm(filename, t)
           /\ StartsWithPlus(filename)
    /\ name_result = Returned(TRUE, <<>>)

\* C2: a filename is accepted only if its description segment is a
\* non-negative integer or begins with '+', and every three-segment
\* filename whose description is neither is returned invalid with the
\* reason "Doesn't start with a number nor a plus sign."
C2_DescriptionRule ==
    (FilenameCalled /\ Len(rsplit(filename, 2)) = 3) =>
        LET d == rsplit(filename, 2)[1]
            good == IsNumeric(d) \/ StartsWithPlus(d)
        IN /\ (name_result.exc = "None" /\ name_result.valid) => good
           /\ ~good =>
                  /\ name_result.exc = "None"
                  /\ ~name_result.valid
                  /\ \E i \in 1..Len(name_result.reason) :
                         name_result.reason[i] = DescriptionReason

\* C3: a filename with fewer than two '.' is returned invalid with the
\* pattern reason alone, whatever its would-be change type and extension.
C3_PatternReasonOnly ==
    (FilenameCalled /\ CountDots(filename) < 2)
        => name_result = Returned(FALSE, <<PatternReason>>)

C3_Witness ==
    /\ FilenameCalled
    /\ CountDots(filename) = 1
    /\ rsplit(filename, 2)[1] \notin allowed_change_types
    /\ rsplit(filename, 2)[2] # wanted_extension
    /\ name_result = Returned(FALSE, <<PatternReason>>)

\* C4: for every three-segment filename and every allow-list the result
\* is valid iff its reason text is empty, the text holds one reason per
\* failed check among extension, change type and description, in that
\* order, and with an empty allow-list the filename is invalid.
C4_AllReasonsTogether ==
    (FilenameCalled /\ Len(rsplit(filename, 2)) = 3) =>
        LET seg == rsplit(filename, 2)
            failed == (IF seg[3] # <<"m", "d">> THEN <<ExtensionReason>> ELSE <<>>)
                          \o (IF seg[2] \notin allowed_change_types
                              THEN <<ChangeTypeReason(seg[2], allowed_change_types)>>
                              ELSE <<>>)
                          \o (IF ~(int_parses(seg[1]) \/ StartsWithPlus(seg[1]))
                              THEN <<DescriptionReason>>
                              ELSE <<>>)
        IN /\ name_result.exc = "None"
           /\ name_result.valid <=> (name_result.reason = <<>>)
           /\ name_result.reason = Join(failed)
           /\ allowed_change_types = {} => ~name_result.valid

\* C10: is_changelog_filename_valid returns for every filename and every
\* allow-list; it never raises.
C10_FilenameNeverRaises ==
    FilenameCalled => name_result.exc = "None"

-----------------------------------------------------------------------------
(* Properties of is_changelog_entry_valid, under SpecEntry. *)

EntryCalled == entry_result # NotCalled

\* C5: on non-empty content the result is valid iff the first character
\* is alphabetic and uppercase and the last character after trimming is
\* '.', with the capitalization reason, the full-stop reason, or both in
\* that order, for the checks that fail.
C5_TwoIndependentChecks ==
    (EntryCalled /\ file_content # <<>>) =>
        LET capital_ok == isalpha(file_content[1]) /\ isupper(file_content[1])
            trimmed == strip(file_content)
            stop_ok == trimmed # <<>> /\ trimmed[Len(trimmed)] = "."
        IN entry_result =
               Returned(capital_ok /\ stop_ok,
                        Join((IF capital_ok THEN <<>> ELSE <<CapitalReason>>)
                                 \o (IF stop_ok THEN <<>> ELSE <<FullStopReason>>)))

\* C6: content that is empty, or empty after trimming, is returned
\* invalid with a reason; no IndexError is raised.
C6_EmptyContentGuarded ==
    (EntryCalled /\ strip(file_content) = <<>>) =>
        /\ entry_result.exc = "None"
        /\ ~entry_result.valid
        /\ entry_result.reason # <<>>

-----------------------------------------------------------------------------
(* Properties of towncrier_check, under Spec. *)

\* the first of the four gates (name, size, UTF-8, content rules) that
\* entry f does not pass, "pass" when it passes all
FirstFailedGate(f, allowed) ==
    IF is_changelog_filename_valid(f.name, allowed) # Returned(TRUE, <<>>)
    THEN "pattern"
    ELSE IF st_size(f) > 16384
    THEN "size"
    ELSE IF ~decodes(f)
    THEN "utf8"
    ELSE IF is_changelog_entry_valid(read_text(f)) # Returned(TRUE, <<>>)
    THEN "entry"
    ELSE "pass"

\* the gates of the log lines about entry f, in order
LoggedGates(f) ==
    LET at == {i \in 1..Len(log) : log[i].file = f.name}
    IN [k \in 1..Cardinality(at) |->
           log[CHOOSE i \in at : Cardinality({j \in at : j <= i}) = k].gate]

\* the positions whose iteration has run, to its end or to a raise
Examined == 1..(IF outcome = "raised" THEN idx ELSE idx - 1)

\* C7: the scan never ends early: when the session ends every entry has
\* been examined, it ends in error iff some entry other than '.gitkeep'
\* failed a gate, and '.gitkeep' is never logged.
C7_NeverAbortsEarly ==
    outcome # "running" =>
        /\ outcome \in {"ok", "error"}
        /\ idx = Len(dir) + 1
        /\ outcome = "error" <=>
               \E i \in 1..Len(dir) :
                   /\ dir[i].name \notin expected_non_md_files
                   /\ FirstFailedGate(dir[i], allowed_change_types) # "pass"
        /\ \A i \in 1..Len(dir) :
               dir[i].name \in expected_non_md_files => LoggedGates(dir[i]) = <<>>

C9_OneLinePerOffender ==
    \A i \in Examined :
        dir[i].name \notin expected_non_md_files =>
            LoggedGates(dir[i]) =
                (IF FirstFailedGate(dir[i], allowed_change_types) = "pass"
                 THEN <<>>
                 ELSE <<FirstFailedGate(dir[i], allowed_change_types)>>)

====
